---- MODULE Spec2Model ----
(***************************************************************************)
(* Model of the documentation website: the base-path utilities           *)
(* (website/src/utils/path.ts: joinPath, applyBasePath, removeBasePath),   *)
(* the page tree with its page sequence and breadcrumbs, the translation   *)
(* status banner and the page templates.                                   *)
(*                                                                         *)
(* A string is a sequence of one-character strings, so that the regular    *)
(* expressions and the slicing of the source are computed character by     *)
(* character.                                                              *)
(***************************************************************************)
EXTENDS Integers, Sequences, FiniteSets, TLC

\* ------------------------------------------------------------------------
\* Bounds of the model
\* ------------------------------------------------------------------------
MaxLen == 3
MaxBaseLen == 2
MaxSteps == 3
MaxPages == 5
MaxWorkers == 2
MaxTabs == 2
MaxLoads == 3
MaxTooltips == 2
MaxLookups == 2

\* The characters the enumerated strings are built from: the separator and
\* two ordinary characters.
Chars == {"/", "a", "b"}

RECURSIVE Strs(_)
\* All strings over Chars of length at most n.
Strs(n) ==
    IF n = 0 THEN {<< >>}
    ELSE LET S == Strs(n - 1)
         IN  S \cup {Append(s, c) : s \in {t \in S : Len(t) = n - 1}, c \in Chars}

\* Literal strings of the documentation and of the tests.
Root == <<"/">>
Empty == << >>
Docs == <<"/", "d", "o", "c", "s">>
DocsSlash == <<"/", "d", "o", "c", "s", "/">>
FooBar == <<"/", "f", "o", "o", "/", "b", "a", "r">>
DocsFooBar == Docs \o FooBar
OtherFoo == <<"/", "o", "t", "h", "e", "r", "/", "f", "o", "o">>
DotImage == <<".", "/", "i", "m", "g">>
DocsX == <<"/", "d", "o", "c", "s", "x">>

BasePaths == Strs(MaxBaseLen) \cup {Docs, DocsSlash, <<"/", "a", "/">>, <<"a", "/", "/">>}
Paths == Strs(MaxLen) \cup {FooBar, DocsFooBar, OtherFoo, DotImage, Docs, DocsSlash, DocsX}

\* ------------------------------------------------------------------------
\* String primitives of the source
\* ------------------------------------------------------------------------
RECURSIVE stripTrailingSlashes(_)
\* s.replace(/\/+$/, "")
stripTrailingSlashes(s) ==
    IF Len(s) > 0 /\ s[Len(s)] = "/"
    THEN stripTrailingSlashes(SubSeq(s, 1, Len(s) - 1))
    ELSE s

RECURSIVE stripLeadingSlashes(_)
\* s.replace(/^\/+/, "")
stripLeadingSlashes(s) ==
    IF Len(s) > 0 /\ s[1] = "/"
    THEN stripLeadingSlashes(Tail(s))
    ELSE s

\* s.startsWith(prefix)
startsWith(s, prefix) ==
    /\ Len(prefix) <= Len(s)
    /\ SubSeq(s, 1, Len(prefix)) = prefix

\* s.endsWith("/")
endsWithSlash(s) == Len(s) > 0 /\ s[Len(s)] = "/"

\* s.slice(start), start a 0-based index with 0 <= start
slice(s, start) ==
    IF start >= Len(s) THEN << >> ELSE SubSeq(s, start + 1, Len(s))

\* ------------------------------------------------------------------------
\* joinPath, applyBasePath, removeBasePath
\* ------------------------------------------------------------------------
\* joinPath with /\/$/ in place of /\/+$/: one trailing slash is removed.
joinPathOneTrailing(base, p) ==
    LET baseClean == IF base # <<"/">> /\ endsWithSlash(base)
                     THEN SubSeq(base, 1, Len(base) - 1) ELSE base
        pathClean == stripLeadingSlashes(p)
    IN  IF baseClean = <<"/">>
        THEN <<"/">> \o pathClean
        ELSE baseClean \o <<"/">> \o pathClean

\* joinPath without the special case of the base "/".
joinPathNoRootCase(base, p) ==
    LET baseClean == IF base # <<"/">> THEN stripTrailingSlashes(base) ELSE base
        pathClean == stripLeadingSlashes(p)
    IN  baseClean \o <<"/">> \o pathClean

\* joinPath that adds no separator when nothing follows it.
joinPathNoSeparatorOnEmpty(base, p) ==
    LET baseClean == IF base # <<"/">> THEN stripTrailingSlashes(base) ELSE base
        pathClean == stripLeadingSlashes(p)
    IN  IF baseClean = <<"/">>
        THEN <<"/">> \o pathClean
        ELSE IF pathClean = << >> THEN baseClean
        ELSE baseClean \o <<"/">> \o pathClean

\* joinPath with /^\// in place of /^\/+/: one leading slash is removed.
joinPathOneLeading(base, p) ==
    LET baseClean == IF base # <<"/">> THEN stripTrailingSlashes(base) ELSE base
        pathClean == IF startsWith(p, <<"/">>) THEN Tail(p) ELSE p
    IN  IF baseClean = <<"/">>
        THEN <<"/">> \o pathClean
        ELSE baseClean \o <<"/">> \o pathClean

\* joinPath that keeps the leading slashes of path.
joinPathKeepLeading(base, p) ==
    LET baseClean == IF base # <<"/">> THEN stripTrailingSlashes(base) ELSE base
    IN  IF baseClean = <<"/">>
        THEN <<"/">> \o p
        ELSE baseClean \o <<"/">> \o p

joinPath(base, p) ==
    LET baseClean == IF base # <<"/">> THEN stripTrailingSlashes(base) ELSE base
        pathClean == stripLeadingSlashes(p)
    IN  IF baseClean = <<"/">>
        THEN <<"/">> \o pathClean
        ELSE baseClean \o <<"/">> \o pathClean

\* applyBasePath without the test for a relative path.
applyBasePathAlways(base, p) == joinPath(base, p)

\* applyBasePath that prepends the base as it is.
applyBasePathConcat(base, p) ==
    LET isRelative == ~ startsWith(p, <<"/">>)
    IN  IF isRelative THEN p ELSE base \o p

applyBasePath(base, p) ==
    LET isRelative == ~ startsWith(p, <<"/">>)
    IN  IF isRelative THEN p ELSE joinPath(base, p)

\* removeBasePath without the test that the route starts with the base.
removeBasePathNoGuard(base, r) ==
    LET offset == Len(base)
    IN  slice(r, IF endsWithSlash(base) THEN offset - 1 ELSE offset)

\* removeBasePath that cuts the whole base, its trailing slash included.
removeBasePathCutSlash(base, r) ==
    IF ~ startsWith(r, base) THEN r ELSE slice(r, Len(base))

\* Strips a leading base from the route and keeps the slash that ends the
\* base as the leading slash of the remainder; a route that does not start
\* with base is returned as it is.
removeBasePath(base, r) ==
    IF ~ startsWith(r, base) THEN r
    ELSE LET offset == Len(base)
         IN  slice(r, IF endsWithSlash(base) THEN offset - 1 ELSE offset)

\* ------------------------------------------------------------------------
\* The page tree. A page is its number; docs maps every page of the tree to
\* the ordered list of its children, and page 1 is the root.
\* ------------------------------------------------------------------------
\* previousPage?: Page, nextPage?: Page -- the value of a prop that is not
\* given.
Absent == 0

RootPage == 1

RECURSIVE SortedSeq(_)
\* The numbers of S in increasing order.
SortedSeq(S) ==
    IF S = {} THEN << >>
    ELSE LET m == CHOOSE x \in S : \A y \in S : x <= y
         IN  <<m>> \o SortedSeq(S \ {m})

Reverse(s) == [i \in 1..Len(s) |-> s[Len(s) + 1 - i]]

\* The trees of n pages in which every page but the root has a parent of a
\* smaller number, the children listed in increasing or in decreasing order.
TreesOf(n) ==
    LET Parents == {par \in [2..n -> 1..n] : \A i \in 2..n : par[i] < i}
        Up(par) == [p \in 1..n |-> SortedSeq({i \in 2..n : par[i] = p})]
    IN  {Up(par) : par \in Parents}
          \cup {[p \in 1..n |-> Reverse(Up(par)[p])] : par \in Parents}

Trees == UNION {TreesOf(n) : n \in 1..MaxPages}

PagesOf(d) == DOMAIN d

\* The routes that may be asked for: those of the pages and one more.
Routes == 1..(MaxPages + 1)

\* The tree root -> [A, B -> [B1, B2]] with root = 1, A = 2, B = 3, B1 = 4,
\* B2 = 5.
ScenarioTree == <<  <<2, 3>>, << >>, <<4, 5>>, << >>, << >>  >>

\* The scenario tree and the trees of up to three pages.
SmallTrees == {ScenarioTree} \cup {d \in Trees : Len(d) <= 3}

\* --- Sequencer ---------------------------------------------------------
RECURSIVE flattenPage(_, _)
RECURSIVE flattenPages(_, _)

\* The pages of the children only, without the page itself.
flattenPageShallow(d, p) == <<p>> \o d[p]

\* The page after its children.
flattenPagePostOrder(d, p) == flattenPages(d, d[p]) \o <<p>>

\* Pre-order: the page, then the subtree of each child in listed order.
flattenPage(d, p) == <<p>> \o flattenPages(d, d[p])

flattenPages(d, children) ==
    IF children = << >> THEN << >>
    ELSE flattenPage(d, Head(children)) \o flattenPages(d, Tail(children))

flattenDocs(d) == flattenPage(d, RootPage)

\* The position of the page of route r in the sequence, 0 when it has none.
pageIndex(seq, r) ==
    IF \E i \in 1..Len(seq) : seq[i] = r
    THEN CHOOSE i \in 1..Len(seq) : seq[i] = r
    ELSE 0

\* The neighbours taken at position - 1 and position + 1 without asking
\* whether the page has a position.
neighboursUnchecked(seq, r) ==
    LET i == pageIndex(seq, r)
    IN  [previousPage |-> IF i - 1 \in 1..Len(seq) THEN seq[i - 1] ELSE Absent,
         nextPage |-> IF i + 1 \in 1..Len(seq) THEN seq[i + 1] ELSE Absent]

\* previous = position i - 1 if it exists, next = position i + 1 if it
\* exists; a page that is not in the sequence has neither.
neighbours(seq, r) ==
    LET i == pageIndex(seq, r)
    IN  IF i = 0 THEN [previousPage |-> Absent, nextPage |-> Absent]
        ELSE [previousPage |-> IF i > 1 THEN seq[i - 1] ELSE Absent,
              nextPage |-> IF i < Len(seq) THEN seq[i + 1] ELSE Absent]

\* --- Pages ----------------------------------------------------------------
\* The last character of the route of each page.
PageNames == <<"r", "a", "b", "c", "d", "e", "f", "g">>

\* page.route: "/docs/" for the root, "/docs/<name>" for the other pages.
routeOf(p) == IF p = RootPage THEN DocsSlash ELSE Append(DocsSlash, PageNames[p])

\* page.title
titleOf(p) == <<"T", PageNames[p]>>

pageOf(p) == [route |-> routeOf(p), title |-> titleOf(p)]

\* --- BreadcrumbResolver ----------------------------------------------------
RECURSIVE findPath(_, _, _, _)
RECURSIVE findInChildren(_, _, _, _)

\* The search that returns the stack without the page it found.
findPathDropsTarget(d, p, r, stack) ==
    IF p = r THEN stack ELSE findInChildren(d, d[p], r, Append(stack, p))

\* Depth-first search from page p for the route r with the path stack; the
\* stack with the matched page when r is found, the empty stack otherwise.
findPath(d, p, r, stack) ==
    IF p = r THEN Append(stack, p)
    ELSE findInChildren(d, d[p], r, Append(stack, p))

findInChildren(d, children, r, stack) ==
    IF children = << >> THEN << >>
    ELSE LET found == findPath(d, Head(children), r, stack)
         IN  IF found # << >> THEN found
             ELSE findInChildren(d, Tail(children), r, stack)

\* The resolution that answers a route it does not find with an empty chain.
resolveBreadcrumbsEmptyChain(d, r) ==
    [status |-> "ok", chain |-> findPath(d, RootPage, r, << >>)]

\* The chain from the root to the page of route r, or PageNotFound.
resolveBreadcrumbs(d, r) ==
    LET found == findPath(d, RootPage, r, << >>)
    IN  IF found = << >>
        THEN [status |-> "PageNotFound", route |-> r]
        ELSE [status |-> "ok", chain |-> found]

\* --- Breadcrumbs -----------------------------------------------------------
HomeHref == DocsSlash

\* Breadcrumbs with idx === path.length in place of idx === path.length - 1.
BreadcrumbsOffByOne(crumbs) ==
    <<[title |-> <<"Home">>, link |-> TRUE, href |-> HomeHref]>> \o
    [idx \in 1..Len(crumbs) |->
        IF idx - 1 = Len(crumbs)
        THEN [title |-> crumbs[idx].title, link |-> FALSE, href |-> Empty]
        ELSE [title |-> crumbs[idx].title, link |-> TRUE, href |-> crumbs[idx].route]]

\* The <a> elements of the breadcrumb list: the home link, then one element
\* per item of the path, the last without href.
Breadcrumbs(crumbs) ==
    <<[title |-> <<"Home">>, link |-> TRUE, href |-> HomeHref]>> \o
    [idx \in 1..Len(crumbs) |->
        IF idx - 1 = Len(crumbs) - 1
        THEN [title |-> crumbs[idx].title, link |-> FALSE, href |-> Empty]
        ELSE [title |-> crumbs[idx].title, link |-> TRUE, href |-> crumbs[idx].route]]

\* --- BaseTemplate ----------------------------------------------------------
FaviconHref == <<"/", "a", "s", "s", "e", "t", "s", "/", "f", "a", "v", "i", "c", "o", "n", ".", "p", "n", "g">>
FontHref == <<"/", "a", "s", "s", "e", "t", "s", "/", "f", "o", "n", "t", "s", "/", "H", "K", "G", "r", "o", "t", "e", "s", "k", "-", "R", "e", "g", "u", "l", "a", "r", ".", "w", "o", "f", "f", "2">>
StylesHref == <<"/", "s", "r", "c", "/", "s", "t", "y", "l", "e", "s", ".", "c", "s", "s">>
TutorialHref == <<"/", "d", "o", "c", "s", "/", "t", "u", "t", "o", "r", "i", "a", "l">>
ReferenceHref == <<"/", "d", "o", "c", "s", "/", "r", "e", "f", "e", "r", "e", "n", "c", "e">>

\* The sidebar: the whole tree with the current route and path marked.
SideNavigation(d, currentRoute, currentPath) ==
    [docs |-> d, currentRoute |-> currentRoute, currentPath |-> currentPath]

\* BaseTemplate with the previous/next test made before the route test.
BaseTemplateLinksFirst(page, d, crumbs, previous, next) ==
    [state |-> "rendered",
     route |-> page.route,
     assets |-> <<FaviconHref, FontHref, StylesHref>>,
     sidebar |-> SideNavigation(d, page.route, crumbs),
     breadcrumbs |-> Breadcrumbs(crumbs),
     categories |-> IF page.route = DocsSlash /\ ~ (previous # Absent /\ next # Absent)
                    THEN <<TutorialHref, ReferenceHref>> ELSE << >>,
     previousNext |-> IF previous # Absent /\ next # Absent
                      THEN <<pageOf(previous).route, pageOf(next).route>>
                      ELSE << >>]

\* BaseTemplate with each of the two links shown when its page is supplied.
BaseTemplateEitherLink(page, d, crumbs, previous, next) ==
    [state |-> "rendered",
     route |-> page.route,
     assets |-> <<FaviconHref, FontHref, StylesHref>>,
     sidebar |-> SideNavigation(d, page.route, crumbs),
     breadcrumbs |-> Breadcrumbs(crumbs),
     categories |-> IF page.route = DocsSlash
                    THEN <<TutorialHref, ReferenceHref>> ELSE << >>,
     previousNext |-> IF page.route = DocsSlash THEN << >>
                      ELSE (IF previous # Absent THEN <<pageOf(previous).route>> ELSE << >>)
                             \o (IF next # Absent THEN <<pageOf(next).route>> ELSE << >>)]

\* What BaseTemplate emits for a page: the links of <head>, the sidebar, the
\* breadcrumb list, the category cards of the root page or the previous/next
\* links.
BaseTemplate(page, d, crumbs, previous, next) ==
    [state |-> "rendered",
     route |-> page.route,
     assets |-> <<FaviconHref, FontHref, StylesHref>>,
     sidebar |-> SideNavigation(d, page.route, crumbs),
     breadcrumbs |-> Breadcrumbs(crumbs),
     categories |-> IF page.route = DocsSlash
                    THEN <<TutorialHref, ReferenceHref>> ELSE << >>,
     previousNext |-> IF page.route # DocsSlash /\ previous # Absent /\ next # Absent
                      THEN <<pageOf(previous).route, pageOf(next).route>>
                      ELSE << >>]

\* --- Body templates --------------------------------------------------------
\* page.body: the tag of the variant and its content.
BodyKinds == {"html", "type"}
bodyOf(p, kind) == [kind |-> kind, content |-> <<"C", PageNames[p]>>]
pageWithBody(p, kind) ==
    [route |-> routeOf(p), title |-> titleOf(p), body |-> bodyOf(p, kind)]

\* HtmlTemplate that does not hand nextPage on.
HtmlTemplateDropsNext(page, d, crumbs, previous, next) ==
    [state |-> "rendered",
     layout |-> BaseTemplate(page, d, crumbs, previous, Absent),
     children |-> << [tag |-> "div", html |-> page.body.content] >>]

\* The layout with the page's HTML as its only child.
HtmlTemplate(page, d, crumbs, previous, next) ==
    [state |-> "rendered",
     layout |-> BaseTemplate(page, d, crumbs, previous, next),
     children |-> << [tag |-> "div", html |-> page.body.content] >>]

\* The layout with the heading and the details of the type as children.
TypeTemplate(page, d, crumbs, previous, next) ==
    [state |-> "rendered",
     layout |-> BaseTemplate(page, d, crumbs, previous, next),
     children |-> << [tag |-> "h1", html |-> page.body.content],
                     [tag |-> "div", html |-> page.body.content] >>]

\* --- Translation status ---------------------------------------------------
\* The entries of menuTranslations that the status banner shows, each
\* Japanese text written as its English meaning.
menuTranslations ==
    [translated |-> "Translated",
     translatedMessage |-> "This page has been translated into Japanese.",
     partiallyTranslated |-> "Partially translated",
     partiallyTranslatedMessage |->
         "This page is partially translated. It contains some of the original text.",
     untranslated |-> "Untranslated",
     untranslatedMessage |->
         "This page is not translated yet. The original text is shown.",
     originalVersion |-> "Original to the Japanese edition",
     contentAddedByCommunity |->
         "This page is not part of the official documentation; the Japanese community added it."]

\* The value of a function that ends without a return statement.
Undefined == [undefined |-> TRUE]

StatusConfig(color, label, message) ==
    [bgColor |-> <<"bg", color, "50">>,
     borderColor |-> <<"border", color, "200">>,
     textColor |-> <<"text", color, "800">>,
     iconColor |-> <<"text", color, "600">>,
     label |-> label,
     message |-> message]

\* getStatusConfig without the case "community".
getStatusConfigNoCommunity(status) ==
    CASE status = "translated" ->
            StatusConfig("green", menuTranslations.translated,
                         menuTranslations.translatedMessage)
      [] status = "partially_translated" ->
            StatusConfig("yellow", menuTranslations.partiallyTranslated,
                         menuTranslations.partiallyTranslatedMessage)
      [] status = "untranslated" ->
            StatusConfig("red", menuTranslations.untranslated,
                         menuTranslations.untranslatedMessage)
      [] OTHER -> Undefined

\* getStatusConfig with "community" falling through to "untranslated".
getStatusConfigCommunityAsUntranslated(status) ==
    CASE status = "translated" ->
            StatusConfig("green", menuTranslations.translated,
                         menuTranslations.translatedMessage)
      [] status = "partially_translated" ->
            StatusConfig("yellow", menuTranslations.partiallyTranslated,
                         menuTranslations.partiallyTranslatedMessage)
      [] status \in {"untranslated", "community"} ->
            StatusConfig("red", menuTranslations.untranslated,
                         menuTranslations.untranslatedMessage)
      [] OTHER -> Undefined

\* getStatusConfig with a default case that shows the untranslated banner.
getStatusConfigWithDefault(status) ==
    CASE status = "translated" ->
            StatusConfig("green", menuTranslations.translated,
                         menuTranslations.translatedMessage)
      [] status = "partially_translated" ->
            StatusConfig("yellow", menuTranslations.partiallyTranslated,
                         menuTranslations.partiallyTranslatedMessage)
      [] status = "community" ->
            StatusConfig("cyan", menuTranslations.originalVersion,
                         menuTranslations.contentAddedByCommunity)
      [] OTHER ->
            StatusConfig("red", menuTranslations.untranslated,
                         menuTranslations.untranslatedMessage)

\* The switch over the status; a status that no case matches leaves the
\* switch and the function returns undefined.
getStatusConfig(status) ==
    CASE status = "translated" ->
            StatusConfig("green", menuTranslations.translated,
                         menuTranslations.translatedMessage)
      [] status = "partially_translated" ->
            StatusConfig("yellow", menuTranslations.partiallyTranslated,
                         menuTranslations.partiallyTranslatedMessage)
      [] status = "untranslated" ->
            StatusConfig("red", menuTranslations.untranslated,
                         menuTranslations.untranslatedMessage)
      [] status = "community" ->
            StatusConfig("cyan", menuTranslations.originalVersion,
                         menuTranslations.contentAddedByCommunity)
      [] OTHER -> Undefined

\* The banner: reading config.bgColor of undefined throws a TypeError.
TranslationStatusAlert(status) ==
    LET config == getStatusConfig(status)
    IN  IF config = Undefined
        THEN [outcome |-> "TypeError", config |-> config]
        ELSE [outcome |-> "rendered",
              config |-> config,
              class |-> <<"border", "rounded-md", "p-4",
                          config.bgColor, config.borderColor, config.textColor>>,
              iconClass |-> config.iconColor,
              label |-> config.label,
              message |-> config.message]

\* The four statuses of the type TranslationStatus, and the values a page's
\* metadata may carry at run time.
KnownStatuses == {"translated", "partially_translated", "untranslated", "community"}
StatusInputs == KnownStatuses \cup {"outdated", ""}

\* --- Translation lookup ----------------------------------------------------
\* A string value and a function value of a JavaScript object.
StringValue(text) == [type |-> "string", text |-> text]
FunctionValue(result) == [type |-> "function", result |-> result]
Element(text) == [type |-> "object", element |-> text]

\* The properties every object inherits from Object.prototype.
ObjectPrototype ==
    [k \in {"constructor", "toString", "valueOf", "hasOwnProperty", "__proto__"} |->
        CASE k = "constructor" -> FunctionValue([type |-> "object", element |-> "{}"])
          [] k = "toString" -> FunctionValue(StringValue("[object Object]"))
          [] k = "valueOf" -> FunctionValue([type |-> "object", element |-> "this"])
          [] k = "hasOwnProperty" -> FunctionValue([type |-> "boolean", value |-> FALSE])
          [] OTHER -> [type |-> "object", element |-> "Object.prototype"]]

\* Entries of menuTranslations in translations.tsx, among them the two that
\* are functions, each Japanese text written as its English meaning.
menuTranslationsEntries ==
    [k \in {"lang", "constructor", "close", "settableDesc", "banner"} |->
        CASE k = "lang" -> StringValue("ja")
          [] k = "constructor" -> StringValue("Constructor")
          [] k = "close" -> StringValue("Close")
          [] k = "settableDesc" -> FunctionValue(Element("Settable arguments can be set with set rules."))
          [] OTHER -> FunctionValue(Element("This site is a translation of the official documentation."))]

\* Entries of menuTranslations in the second translations module, all strings.
stringTranslationsEntries ==
    [k \in {"lang", "ariaClose", "documentationTitle"} |->
        CASE k = "lang" -> StringValue("ja")
          [] k = "ariaClose" -> StringValue("Close")
          [] OTHER -> StringValue("Typst documentation, Japanese edition")]

\* Object.hasOwn(obj, key)
hasOwn(obj, key) == key \in DOMAIN obj

\* obj[key]: the own property, else the inherited one, else undefined.
getProperty(obj, key) ==
    IF key \in DOMAIN obj THEN obj[key]
    ELSE IF key \in DOMAIN ObjectPrototype THEN ObjectPrototype[key]
    ELSE Undefined

\* typeof value
typeof(value) == IF value = Undefined THEN "undefined" ELSE value.type

Returned(value) == [outcome |-> "returned", value |-> value]
Thrown(key) == [outcome |-> "thrown", error |-> <<"Not translation found for ", key>>]

\* t that returns whatever the lookup gives.
tNoThrow(obj, key) == Returned(getProperty(obj, key))

\* t that calls every value that is a function, inherited or not.
tCallsInherited(obj, key) ==
    IF typeof(getProperty(obj, key)) = "string" THEN Returned(getProperty(obj, key))
    ELSE IF typeof(getProperty(obj, key)) = "function"
         THEN Returned(getProperty(obj, key).result)
         ELSE Thrown(key)

\* t of translations.tsx over the entries of its menuTranslations.
t(obj, key) ==
    IF typeof(getProperty(obj, key)) = "string" THEN Returned(getProperty(obj, key))
    ELSE IF hasOwn(obj, key)
         THEN (IF typeof(getProperty(obj, key)) = "function"
               THEN Returned(getProperty(obj, key).result)
               ELSE [outcome |-> "thrown", error |-> <<"TypeError: not a function ", key>>])
         ELSE Thrown(key)

\* t of the second translations module, which has no function entries.
tStrings(obj, key) ==
    IF typeof(getProperty(obj, key)) = "string" THEN Returned(getProperty(obj, key))
    ELSE Thrown(key)

TranslationModules == {"translations.tsx", "part_005"}
entriesOf(module) ==
    IF module = "translations.tsx" THEN menuTranslationsEntries
    ELSE stringTranslationsEntries

\* The keys asked for: entries of either module, names of Object.prototype,
\* and names that are nowhere.
LookupKeys ==
    DOMAIN menuTranslationsEntries \cup DOMAIN stringTranslationsEntries
       \cup DOMAIN ObjectPrototype \cup {"missing", ""}

\* ------------------------------------------------------------------------
\* State: the configured base path, the string the caller passed first, the
\* operations applied so far and the string each of them returned.
\* ------------------------------------------------------------------------
VARIABLES basePath, path, ops, results

\* State of a build: the page tree, the page sequence once it is computed,
\* the route of the page being rendered and its previous and next page.
VARIABLES docs, flattenedPages, target, sequenced, previousPage, nextPage

\* The outcome of the breadcrumb resolution for the target and what was
\* rendered for it.
VARIABLES resolved, rendered

\* The translation status of the target page and the banner shown for it.
VARIABLES status, alert

\* The body of the page a template is applied to and the document it gives.
VARIABLES body, document

\* A build with several workers: what each worker is doing, the document
\* written for each route and the failures reported.
VARIABLES workers, outputs, reports

\* The site notice banner in the browser: the item 'typst-jp-banner-hidden'
\* of the localStorage that the open pages share, and the banner component
\* of each tab.
VARIABLES localStorage, tabs

\* The Tooltip components of a page: helpOpen of each, the element that has
\* the keyboard focus and the event dispatched last.
VARIABLES helpOpen, focus, event

\* Translation lookups: the module whose t is called, the keys asked for
\* so far and what each call gave.
VARIABLES translations, asked, answers

pathVars == <<basePath, path, ops, results>>
lookupVars == <<translations, asked, answers>>
tooltipVars == <<helpOpen, focus, event>>
bannerVars == <<localStorage, tabs>>
buildVars == <<workers, outputs, reports>>
templateVars == <<body, document>>
statusVars == <<status, alert>>
navVars == <<docs, flattenedPages, target, sequenced, previousPage, nextPage,
             resolved, rendered, statusVars>>

\* The state outside the path utilities and the navigation of a build.
pageVars == <<templateVars, buildVars, bannerVars, tooltipVars, lookupVars>>

vars == <<pathVars, navVars, pageVars>>

\* The build has not started: a tree of one page, nothing computed.
NavIdle ==
    /\ docs = << << >> >>
    /\ flattenedPages = << >>
    /\ target = Absent
    /\ sequenced = FALSE
    /\ previousPage = Absent
    /\ nextPage = Absent
    /\ resolved = [status |-> "none"]
    /\ rendered = [state |-> "none"]
    /\ status = "none"
    /\ alert = [outcome |-> "none"]

\* No template is being applied.
TemplateIdle ==
    /\ body = [kind |-> "none"]
    /\ document = [state |-> "none"]

Workers == 1..MaxWorkers

IdleWorker ==
    [pc |-> "idle", route |-> Absent, previousPage |-> Absent, nextPage |-> Absent,
     resolved |-> [status |-> "none"]]

\* No worker has taken a page and nothing is written.
BuildIdle ==
    /\ workers = [w \in Workers |-> IdleWorker]
    /\ outputs = [r \in Routes |-> [state |-> "none"]]
    /\ reports = {}

\* localStorage.getItem on a key that was never set.
NoItem == "null"

Tabs == 1..MaxTabs

\* A tab in which no page is loaded.
NoPage ==
    [loaded |-> FALSE, loads |-> 0, bannerVisible |-> FALSE, isBannerHidden |-> FALSE,
     timer |-> "none", shown |-> 0, dismissed |-> FALSE]

\* No page is open in the browser.
BannerIdle ==
    /\ localStorage = NoItem
    /\ tabs = [p \in Tabs |-> NoPage]

Tooltips == 1..MaxTooltips

\* An element outside every Tooltip.
Body == [tooltip |-> 0, part |-> "body"]

NoEvent == [type |-> "none", key |-> "none", target |-> Body]

\* x-data="{ helpOpen: false }" of every Tooltip, nothing focused.
TooltipIdle ==
    /\ helpOpen = [i \in Tooltips |-> FALSE]
    /\ focus = Body
    /\ event = NoEvent

\* No lookup was made.
LookupIdle ==
    /\ translations = "translations.tsx"
    /\ asked = << >>
    /\ answers = << >>

PageIdle == TemplateIdle /\ BuildIdle /\ BannerIdle /\ TooltipIdle /\ LookupIdle

OpNames == {"joinPath", "applyBasePath", "removeBasePath"}

\* The string the next operation is applied to.
route == IF Len(results) = 0 THEN path ELSE results[Len(results)]

\* The operation applied last, and the string it was applied to.
lastOp == IF Len(ops) = 0 THEN "none" ELSE ops[Len(ops)]
arg == IF Len(results) <= 1 THEN path ELSE results[Len(results) - 1]

Init ==
    /\ basePath \in BasePaths
    /\ path \in Paths
    /\ ops = << >>
    /\ results = << >>
    /\ NavIdle
    /\ PageIdle

JoinPath ==
    /\ Len(ops) < MaxSteps
    /\ results' = Append(results, joinPath(basePath, route))
    /\ ops' = Append(ops, "joinPath")
    /\ UNCHANGED <<basePath, path>>
    /\ UNCHANGED navVars
    /\ UNCHANGED pageVars

ApplyBasePath ==
    /\ Len(ops) < MaxSteps
    /\ results' = Append(results, applyBasePath(basePath, route))
    /\ ops' = Append(ops, "applyBasePath")
    /\ UNCHANGED <<basePath, path>>
    /\ UNCHANGED navVars
    /\ UNCHANGED pageVars

RemoveBasePath ==
    /\ Len(ops) < MaxSteps
    /\ results' = Append(results, removeBasePath(basePath, route))
    /\ ops' = Append(ops, "removeBasePath")
    /\ UNCHANGED <<basePath, path>>
    /\ UNCHANGED navVars
    /\ UNCHANGED pageVars

Next == JoinPath \/ ApplyBasePath \/ RemoveBasePath

Spec == Init /\ [][Next]_vars

\* ------------------------------------------------------------------------
\* A build: the tree is flattened once, then pages are taken one after the
\* other and their navigation is derived.
\* ------------------------------------------------------------------------
NavBasePaths == {Root, Docs, DocsSlash, <<"/", "a">>}

NavInit ==
    /\ basePath \in NavBasePaths
    /\ path = Empty
    /\ ops = << >>
    /\ results = << >>
    /\ docs \in Trees
    /\ flattenedPages = << >>
    /\ target = Absent
    /\ sequenced = FALSE
    /\ previousPage = Absent
    /\ nextPage = Absent
    /\ resolved = [status |-> "none"]
    /\ rendered = [state |-> "none"]
    /\ status = "none"
    /\ alert = [outcome |-> "none"]
    /\ PageIdle

\* The Sequencer runs over the tree.
FlattenDocs ==
    /\ flattenedPages = << >>
    /\ flattenedPages' = flattenDocs(docs)
    /\ UNCHANGED <<docs, target, sequenced, previousPage, nextPage>>
    /\ UNCHANGED <<resolved, rendered>>
    /\ UNCHANGED pathVars
    /\ UNCHANGED pageVars
    /\ UNCHANGED statusVars

\* The next page to render is taken: a route of the tree or one that the
\* tree does not have.
SelectPage ==
    /\ flattenedPages # << >>
    /\ \E r \in Routes :
          /\ r # target
          /\ target' = r
    /\ sequenced' = FALSE
    /\ previousPage' = Absent
    /\ nextPage' = Absent
    /\ resolved' = [status |-> "none"]
    /\ rendered' = [state |-> "none"]
    /\ status' = "none"
    /\ alert' = [outcome |-> "none"]
    /\ UNCHANGED <<docs, flattenedPages>>
    /\ UNCHANGED pathVars
    /\ UNCHANGED pageVars

\* The Sequencer gives the previous and the next page of the target.
SequencePage ==
    /\ target # Absent
    /\ ~ sequenced
    /\ sequenced' = TRUE
    /\ previousPage' = neighbours(flattenedPages, target).previousPage
    /\ nextPage' = neighbours(flattenedPages, target).nextPage
    /\ UNCHANGED <<docs, flattenedPages, target>>
    /\ UNCHANGED <<resolved, rendered>>
    /\ UNCHANGED pathVars
    /\ UNCHANGED pageVars
    /\ UNCHANGED statusVars

\* The BreadcrumbResolver searches the tree for the target.
ResolveBreadcrumbs ==
    /\ target # Absent
    /\ resolved.status = "none"
    /\ resolved' = resolveBreadcrumbs(docs, target)
    /\ UNCHANGED <<docs, flattenedPages, target, sequenced, previousPage, nextPage>>
    /\ UNCHANGED rendered
    /\ UNCHANGED pathVars
    /\ UNCHANGED pageVars
    /\ UNCHANGED statusVars

\* The page is rendered from its navigation context; a failed lookup aborts
\* the render of this page and is reported with the route.
RenderPage ==
    /\ target # Absent
    /\ sequenced
    /\ resolved.status # "none"
    /\ rendered.state = "none"
    /\ rendered' =
          IF resolved.status = "PageNotFound"
          THEN [state |-> "aborted", error |-> "PageNotFound", route |-> resolved.route]
          ELSE BaseTemplate(pageOf(target), docs,
                            [i \in 1..Len(resolved.chain) |-> pageOf(resolved.chain[i])],
                            previousPage, nextPage)
    /\ UNCHANGED <<docs, flattenedPages, target, sequenced, previousPage, nextPage>>
    /\ UNCHANGED resolved
    /\ UNCHANGED pathVars
    /\ UNCHANGED pageVars
    /\ UNCHANGED statusVars

\* The banner of the target page is built from the translation status that
\* the page's metadata carries.
ShowTranslationStatus ==
    /\ target # Absent
    /\ status = "none"
    /\ \E st \in StatusInputs :
          /\ status' = st
          /\ alert' = TranslationStatusAlert(st)
    /\ UNCHANGED <<docs, flattenedPages, target, sequenced, previousPage, nextPage>>
    /\ UNCHANGED <<resolved, rendered>>
    /\ UNCHANGED pathVars
    /\ UNCHANGED pageVars

NavNext ==
    \/ FlattenDocs
    \/ SelectPage
    \/ SequencePage
    \/ ResolveBreadcrumbs
    \/ RenderPage
    \/ ShowTranslationStatus

NavSpec == NavInit /\ [][NavNext]_vars

\* ------------------------------------------------------------------------
\* A template applied to a page: the props are any page of the tree with a
\* body of either kind, its path, and a previous and a next page that are
\* each supplied or not.
\* ------------------------------------------------------------------------
TemplateInit ==
    /\ basePath = Root
    /\ path = Empty
    /\ ops = << >>
    /\ results = << >>
    /\ docs \in SmallTrees
    /\ flattenedPages = << >>
    /\ target \in PagesOf(docs)
    /\ sequenced = FALSE
    /\ previousPage \in PagesOf(docs) \cup {Absent}
    /\ nextPage \in PagesOf(docs) \cup {Absent}
    /\ resolved = resolveBreadcrumbs(docs, target)
    /\ rendered = [state |-> "none"]
    /\ status = "none"
    /\ alert = [outcome |-> "none"]
    /\ body \in {bodyOf(target, kind) : kind \in BodyKinds}
    /\ document = [state |-> "none"]
    /\ BuildIdle
    /\ BannerIdle
    /\ TooltipIdle
    /\ LookupIdle

\* The path prop: the pages of the resolved chain.
pathProp == [i \in 1..Len(resolved.chain) |-> pageOf(resolved.chain[i])]

RenderHtmlTemplate ==
    /\ body.kind = "html"
    /\ document.state = "none"
    /\ document' = HtmlTemplate(pageWithBody(target, body.kind), docs, pathProp,
                                previousPage, nextPage)
    /\ UNCHANGED body
    /\ UNCHANGED <<pathVars, navVars>>
    /\ UNCHANGED <<buildVars, bannerVars, tooltipVars, lookupVars>>

RenderTypeTemplate ==
    /\ body.kind = "type"
    /\ document.state = "none"
    /\ document' = TypeTemplate(pageWithBody(target, body.kind), docs, pathProp,
                                previousPage, nextPage)
    /\ UNCHANGED body
    /\ UNCHANGED <<pathVars, navVars>>
    /\ UNCHANGED <<buildVars, bannerVars, tooltipVars, lookupVars>>

TemplateNext == RenderHtmlTemplate \/ RenderTypeTemplate

TemplateSpec == TemplateInit /\ [][TemplateNext]_vars

\* ------------------------------------------------------------------------
\* A build by several workers: the tree is flattened once, then every
\* worker takes a route nobody has taken, derives its navigation, renders
\* the page and writes the document, or reports the failure.
\* ------------------------------------------------------------------------
\* The routes asked for: those of the pages and one the tree does not have.
BuildRoutes(d) == PagesOf(d) \cup {Len(d) + 1}

BuildInit ==
    /\ basePath = Root
    /\ path = Empty
    /\ ops = << >>
    /\ results = << >>
    /\ docs \in SmallTrees
    /\ flattenedPages = << >>
    /\ target = Absent
    /\ sequenced = FALSE
    /\ previousPage = Absent
    /\ nextPage = Absent
    /\ resolved = [status |-> "none"]
    /\ rendered = [state |-> "none"]
    /\ status = "none"
    /\ alert = [outcome |-> "none"]
    /\ TemplateIdle
    /\ BuildIdle
    /\ BannerIdle
    /\ TooltipIdle
    /\ LookupIdle

BuildFrame == <<pathVars, target, sequenced, previousPage, nextPage, resolved,
                rendered, statusVars, templateVars, bannerVars, tooltipVars, lookupVars>>

WorkerTake(w) ==
    /\ flattenedPages # << >>
    /\ workers[w].pc = "idle"
    /\ \E r \in BuildRoutes(docs) :
          /\ outputs[r].state = "none"
          /\ \A v \in Workers : workers[v].route # r
          /\ workers' = [workers EXCEPT ![w] = [IdleWorker EXCEPT !.pc = "taken",
                                                                !.route = r]]
    /\ UNCHANGED <<docs, flattenedPages, outputs, reports>>
    /\ UNCHANGED BuildFrame

WorkerSequence(w) ==
    /\ workers[w].pc = "taken"
    /\ workers' = [workers EXCEPT
          ![w].pc = "sequenced",
          ![w].previousPage = neighbours(flattenedPages, workers[w].route).previousPage,
          ![w].nextPage = neighbours(flattenedPages, workers[w].route).nextPage]
    /\ UNCHANGED <<docs, flattenedPages, outputs, reports>>
    /\ UNCHANGED BuildFrame

WorkerResolve(w) ==
    /\ workers[w].pc = "sequenced"
    /\ workers' = [workers EXCEPT
          ![w].pc = "resolved",
          ![w].resolved = resolveBreadcrumbs(docs, workers[w].route)]
    /\ UNCHANGED <<docs, flattenedPages, outputs, reports>>
    /\ UNCHANGED BuildFrame

\* What the worker writes for its route.
documentOf(d, job) ==
    IF job.resolved.status = "PageNotFound"
    THEN [state |-> "aborted", error |-> "PageNotFound", route |-> job.resolved.route]
    ELSE BaseTemplate(pageOf(job.route), d,
                      [i \in 1..Len(job.resolved.chain) |-> pageOf(job.resolved.chain[i])],
                      job.previousPage, job.nextPage)

\* WorkerWrite that gives up the whole build on a failed lookup: every route
\* not written yet is marked as aborted too.
WorkerWriteFailFast(w) ==
    /\ workers[w].pc = "resolved"
    /\ outputs' =
          IF workers[w].resolved.status = "PageNotFound"
          THEN [r \in Routes |->
                  IF r = workers[w].route THEN documentOf(docs, workers[w])
                  ELSE IF r \in BuildRoutes(docs) /\ outputs[r].state = "none"
                       THEN [state |-> "aborted", error |-> "PageNotFound",
                             route |-> workers[w].route]
                       ELSE outputs[r]]
          ELSE [outputs EXCEPT ![workers[w].route] = documentOf(docs, workers[w])]
    /\ reports' = IF workers[w].resolved.status = "PageNotFound"
                  THEN reports \cup {[error |-> "PageNotFound", route |-> workers[w].route]}
                  ELSE reports
    /\ workers' = [workers EXCEPT ![w] = IdleWorker]
    /\ UNCHANGED <<docs, flattenedPages>>
    /\ UNCHANGED BuildFrame

\* WorkerWrite that puts the children of the page in reverse order, in
\* place, while it renders the page.
WorkerWriteReversesChildren(w) ==
    /\ workers[w].pc = "resolved"
    /\ outputs' = [outputs EXCEPT ![workers[w].route] = documentOf(docs, workers[w])]
    /\ reports' = IF workers[w].resolved.status = "PageNotFound"
                  THEN reports \cup {[error |-> "PageNotFound", route |-> workers[w].route]}
                  ELSE reports
    /\ workers' = [workers EXCEPT ![w] = IdleWorker]
    /\ docs' = IF workers[w].route \in PagesOf(docs)
               THEN [docs EXCEPT ![workers[w].route] = Reverse(@)]
               ELSE docs
    /\ UNCHANGED flattenedPages
    /\ UNCHANGED BuildFrame

\* The page is rendered and written; a failed lookup aborts the render of
\* this page only and is reported with the route.
WorkerWrite(w) ==
    /\ workers[w].pc = "resolved"
    /\ outputs' = [outputs EXCEPT ![workers[w].route] = documentOf(docs, workers[w])]
    /\ reports' = IF workers[w].resolved.status = "PageNotFound"
                  THEN reports \cup {[error |-> "PageNotFound", route |-> workers[w].route]}
                  ELSE reports
    /\ workers' = [workers EXCEPT ![w] = IdleWorker]
    /\ UNCHANGED <<docs, flattenedPages>>
    /\ UNCHANGED BuildFrame

BuildNext ==
    \/ FlattenDocs
    \/ \E w \in Workers : WorkerTake(w)
    \/ \E w \in Workers : WorkerSequence(w)
    \/ \E w \in Workers : WorkerResolve(w)
    \/ \E w \in Workers : WorkerWrite(w)

BuildSpec == BuildInit /\ [][BuildNext]_vars

\* Every worker that can take a step takes one in the end.
BuildFairSpec == BuildSpec /\ WF_vars(BuildNext)

\* ------------------------------------------------------------------------
\* The site notice banner: pages are loaded in the tabs of one browser, the
\* timer of a page fires, the reader closes the banner.
\* ------------------------------------------------------------------------
StoredValues == {NoItem, "true", "false"}

BannerInit ==
    /\ basePath = Root
    /\ path = Empty
    /\ ops = << >>
    /\ results = << >>
    /\ NavIdle
    /\ TemplateIdle
    /\ BuildIdle
    /\ localStorage \in StoredValues
    /\ tabs = [p \in Tabs |-> NoPage]
    /\ TooltipIdle
    /\ LookupIdle

BannerFrame == <<pathVars, navVars, templateVars, buildVars, tooltipVars, lookupVars>>

\* x-data and x-init of a page load: bannerVisible is false and
\* checkBannerStatus reads the item and sets the timer if it is not 'true'.
\* Loading a page in a tab that has one ends that page and its timer.
LoadPage(p) ==
    /\ tabs[p].loads < MaxLoads
    /\ LET isBannerHidden == (localStorage = "true")
       IN  tabs' = [tabs EXCEPT ![p] =
                      [loaded |-> TRUE, loads |-> tabs[p].loads + 1,
                       bannerVisible |-> FALSE, isBannerHidden |-> isBannerHidden,
                       timer |-> IF isBannerHidden THEN "none" ELSE "pending",
                       shown |-> 0, dismissed |-> FALSE]]
    /\ UNCHANGED localStorage
    /\ UNCHANGED BannerFrame

\* A timer that is set again each time it fires.
TimerFiresRepeating(p) ==
    /\ tabs[p].loaded
    /\ tabs[p].timer = "pending"
    /\ tabs[p].shown < MaxLoads
    /\ ~ tabs[p].bannerVisible
    /\ tabs' = [tabs EXCEPT ![p].bannerVisible = TRUE,
                            ![p].shown = @ + 1]
    /\ UNCHANGED localStorage
    /\ UNCHANGED BannerFrame

\* The callback of setTimeout, bannerVisibleAfter milliseconds after the
\* check.
TimerFires(p) ==
    /\ tabs[p].loaded
    /\ tabs[p].timer = "pending"
    /\ tabs' = [tabs EXCEPT ![p].bannerVisible = TRUE,
                            ![p].timer = "fired",
                            ![p].shown = @ + 1]
    /\ UNCHANGED localStorage
    /\ UNCHANGED BannerFrame

\* hideBanner that does not store the item.
HideBannerNotStored(p) ==
    /\ tabs[p].loaded
    /\ tabs[p].bannerVisible
    /\ tabs' = [tabs EXCEPT ![p].bannerVisible = FALSE,
                            ![p].dismissed = TRUE]
    /\ UNCHANGED localStorage
    /\ UNCHANGED BannerFrame

\* A click on the close button, which is part of the banner and so can be
\* clicked only while the banner is shown.
HideBanner(p) ==
    /\ tabs[p].loaded
    /\ tabs[p].bannerVisible
    /\ tabs' = [tabs EXCEPT ![p].bannerVisible = FALSE,
                            ![p].dismissed = TRUE]
    /\ localStorage' = "true"
    /\ UNCHANGED BannerFrame

BannerNext ==
    \/ \E p \in Tabs : LoadPage(p)
    \/ \E p \in Tabs : TimerFires(p)
    \/ \E p \in Tabs : HideBanner(p)

BannerSpec == BannerInit /\ [][BannerNext]_vars

\* The timer of a page that stays loaded fires.
BannerFairSpec == BannerSpec /\ \A p \in Tabs : WF_vars(TimerFires(p))

\* ------------------------------------------------------------------------
\* The Tooltip dialogs of a page: the reader clicks, moves the focus and
\* presses keys; every event goes from its target up through the ancestors
\* of the target and runs the handlers it meets.
\* ------------------------------------------------------------------------
\* The elements of a Tooltip from the given part up to its root element.
pathToRoot(part) ==
    CASE part = "helpButton" -> <<"helpButton", "root">>
      [] part = "closeButton" -> <<"closeButton", "panel", "backdrop", "root">>
      [] part = "panel" -> <<"panel", "backdrop", "root">>
      [] part = "backdrop" -> <<"backdrop", "root">>
      [] OTHER -> << >>

ButtonKeys == {"Enter", "Space"}
Keys == ButtonKeys \cup {"Escape"}

\* The handler of the element stops the event (x-on:click.stop).
stops(part, type) == part = "panel" /\ type = "click"

\* helpOpen after the handler of one element has run.
handler(open, part, type, key) ==
    CASE part = "helpButton" /\ type = "click" -> TRUE
      [] part = "helpButton" /\ type = "keydown" /\ key \in ButtonKeys -> TRUE
      [] part = "backdrop" /\ type = "click" -> FALSE
      [] part = "backdrop" /\ type = "keydown" /\ key = "Escape" -> FALSE
      [] part = "closeButton" /\ type = "click" -> FALSE
      [] part = "closeButton" /\ type = "keydown" /\ key \in ButtonKeys -> FALSE
      [] OTHER -> open

RECURSIVE dispatch(_, _, _, _)
\* helpOpen after the event has gone up the elements of the path.
dispatch(open, elements, type, key) ==
    IF elements = << >> THEN open
    ELSE LET after == handler(open, Head(elements), type, key)
         IN  IF stops(Head(elements), type) THEN after
             ELSE dispatch(after, Tail(elements), type, key)

\* The elements that can be clicked or focused: the help button always, the
\* parts of the dialog while it is shown (x-show="helpOpen").
visible(i, part) == part = "helpButton" \/ helpOpen[i]

\* The element that has the focus after helpOpen changed: an element that
\* is no longer shown loses it.
focusAfter(f, open) ==
    IF f.part \in {"closeButton", "panel", "backdrop"} /\ ~ open[f.tooltip]
    THEN Body ELSE f

TooltipInit ==
    /\ basePath = Root
    /\ path = Empty
    /\ ops = << >>
    /\ results = << >>
    /\ NavIdle
    /\ TemplateIdle
    /\ BuildIdle
    /\ BannerIdle
    /\ TooltipIdle
    /\ LookupIdle

TooltipFrame == <<pathVars, navVars, templateVars, buildVars, bannerVars, lookupVars>>

\* A click on a part of Tooltip i. The backdrop of an open dialog covers
\* the page, so a help button is clicked only while no dialog is shown. The
\* click gives the focus to a button and takes it from any other element.
Click(i, part) ==
    /\ visible(i, part)
    /\ part = "helpButton" => \A j \in Tooltips : ~ helpOpen[j]
    /\ LET open == [helpOpen EXCEPT ![i] = dispatch(helpOpen[i], pathToRoot(part),
                                                     "click", "none")]
           clicked == [tooltip |-> i, part |-> part]
       IN  /\ helpOpen' = open
           /\ event' = [type |-> "click", key |-> "none", target |-> clicked]
           /\ \E f \in {Body} \cup (IF part \in {"helpButton", "closeButton"}
                                    THEN {clicked} ELSE {}) :
                 focus' = focusAfter(f, open)
    /\ UNCHANGED TooltipFrame

\* The Tab key or a script moves the focus to a button that is shown.
MoveFocus(i, part) ==
    /\ part \in {"helpButton", "closeButton"}
    /\ visible(i, part)
    /\ focus # [tooltip |-> i, part |-> part]
    /\ focus' = [tooltip |-> i, part |-> part]
    /\ UNCHANGED <<helpOpen, event>>
    /\ UNCHANGED TooltipFrame

\* A key is pressed: the keydown event goes to the element that has the
\* focus; Enter and Space on a button also click it.
Keydown(key) ==
    /\ LET i == focus.tooltip
           afterKey == dispatch(helpOpen[i], pathToRoot(focus.part), "keydown", key)
           afterClick == IF key \in ButtonKeys
                         THEN dispatch(afterKey, pathToRoot(focus.part), "click", "none")
                         ELSE afterKey
           open == IF i = 0 THEN helpOpen ELSE [helpOpen EXCEPT ![i] = afterClick]
       IN  /\ helpOpen' = open
           /\ focus' = focusAfter(focus, open)
    /\ event' = [type |-> "keydown", key |-> key, target |-> focus]
    /\ UNCHANGED TooltipFrame

TooltipNext ==
    \/ \E i \in Tooltips :
          \E part \in {"helpButton", "backdrop", "panel", "closeButton"} : Click(i, part)
    \/ \E i \in Tooltips : \E part \in {"helpButton", "closeButton"} : MoveFocus(i, part)
    \/ \E key \in Keys : Keydown(key)

TooltipSpec == TooltipInit /\ [][TooltipNext]_vars

\* ------------------------------------------------------------------------
\* Translation lookups: t is called with one key after the other.
\* ------------------------------------------------------------------------
LookupInit ==
    /\ basePath = Root
    /\ path = Empty
    /\ ops = << >>
    /\ results = << >>
    /\ NavIdle
    /\ TemplateIdle
    /\ BuildIdle
    /\ BannerIdle
    /\ TooltipIdle
    /\ translations \in TranslationModules
    /\ asked = << >>
    /\ answers = << >>

LookupFrame == <<pathVars, navVars, templateVars, buildVars, bannerVars, tooltipVars>>

Translate ==
    /\ translations = "translations.tsx"
    /\ Len(asked) < MaxLookups
    /\ \E key \in LookupKeys :
          /\ asked' = Append(asked, key)
          /\ answers' = Append(answers, t(menuTranslationsEntries, key))
    /\ UNCHANGED translations
    /\ UNCHANGED LookupFrame

TranslateStrings ==
    /\ translations = "part_005"
    /\ Len(asked) < MaxLookups
    /\ \E key \in LookupKeys :
          /\ asked' = Append(asked, key)
          /\ answers' = Append(answers, tStrings(stringTranslationsEntries, key))
    /\ UNCHANGED translations
    /\ UNCHANGED LookupFrame

LookupNext == Translate \/ TranslateStrings

LookupSpec == LookupInit /\ [][LookupNext]_vars

TypeOK ==
    /\ basePath \in BasePaths
    /\ path \in Paths
    /\ ops \in Seq(OpNames)
    /\ Len(ops) <= MaxSteps
    /\ Len(results) = Len(ops)

\* ------------------------------------------------------------------------
\* Vocabulary of the properties
\* ------------------------------------------------------------------------
AllSlashes(s) == \A i \in 1..Len(s) : s[i] = "/"
NoTrailingSlash(s) == Len(s) = 0 \/ s[Len(s)] # "/"
NoLeadingSlash(s) == Len(s) = 0 \/ s[1] # "/"
Prefix(s, k) == SubSeq(s, 1, k)
Suffix(s, k) == SubSeq(s, k + 1, Len(s))

\* r is b and p with the run of slashes where they meet replaced by one "/".
JoinedWithOneSlash(b, p, r) ==
    \E i \in 0..Len(b), j \in 0..Len(p) :
        /\ AllSlashes(Suffix(b, i))
        /\ NoTrailingSlash(Prefix(b, i))
        /\ AllSlashes(Prefix(p, j))
        /\ NoLeadingSlash(Suffix(p, j))
        /\ r = Prefix(b, i) \o <<"/">> \o Suffix(p, j)

\* ------------------------------------------------------------------------
\* joinPath
\* ------------------------------------------------------------------------

\* C1: joinPath(base, path) puts exactly one "/" between the base part and
\* the path part: every trailing slash of base and every leading slash of
\* path is collapsed into that separator; "/a/" with "/b", "/a" with "b"
\* and "/a" with "/b" all give "/a/b".
JoinPathSingleSeparator ==
    lastOp = "joinPath" =>
        /\ JoinedWithOneSlash(basePath, arg, route)
        /\ ( /\ basePath \in {<<"/", "a">>, <<"/", "a", "/">>}
             /\ arg \in {<<"b">>, <<"/", "b">>}
             => route = <<"/", "a", "/", "b">> )

JoinPathSingleSeparatorWitness ==
    /\ ops = <<"joinPath">>
    /\ basePath = <<"a", "/", "/">>
    /\ path = <<"/", "/", "b">>
    /\ route = <<"a", "/", "b">>

\* C2: with base "/", joinPath returns "/" followed by path without its
\* leading slashes, so the result never begins with "//".
JoinPathRootBase ==
    lastOp = "joinPath" /\ basePath = Root =>
        /\ Len(route) >= 1 /\ route[1] = "/"
        /\ NoLeadingSlash(Tail(route))
        /\ \E j \in 0..Len(arg) :
              AllSlashes(Prefix(arg, j)) /\ route = <<"/">> \o Suffix(arg, j)

JoinPathRootBaseWitness ==
    /\ ops = <<"joinPath">>
    /\ basePath = Root
    /\ path = <<"/", "/", "a">>
    /\ route = <<"/", "a">>

\* C3: joinPath(base, "") is base with exactly one trailing slash, whatever
\* the number of slashes base ended with.
JoinPathEmptyPath ==
    lastOp = "joinPath" /\ arg = Empty =>
        \E i \in 0..Len(basePath) :
            /\ AllSlashes(Suffix(basePath, i))
            /\ NoTrailingSlash(Prefix(basePath, i))
            /\ route = Prefix(basePath, i) \o <<"/">>

JoinPathEmptyPathWitness ==
    /\ ops = <<"joinPath">>
    /\ basePath = <<"/", "a", "/">>
    /\ path = Empty
    /\ route = <<"/", "a", "/">>

\* C4: joinPath("", path) is path with exactly one leading slash, whether
\* path began with no slash, one slash or several.
JoinPathEmptyBase ==
    lastOp = "joinPath" /\ basePath = Empty =>
        \E j \in 0..Len(arg) :
            /\ AllSlashes(Prefix(arg, j))
            /\ NoLeadingSlash(Suffix(arg, j))
            /\ route = <<"/">> \o Suffix(arg, j)

JoinPathEmptyBaseWitness ==
    /\ ops = <<"joinPath">>
    /\ basePath = Empty
    /\ path = <<"/", "/", "a">>
    /\ route = <<"/", "a">>

\* ------------------------------------------------------------------------
\* applyBasePath
\* ------------------------------------------------------------------------

\* C5: applyBasePath returns a path that does not start with "/" unchanged,
\* whatever the base: the empty path and relative paths are never rewritten.
ApplyBasePathKeepsRelative ==
    lastOp = "applyBasePath" /\ NoLeadingSlash(arg) => route = arg

ApplyBasePathKeepsRelativeWitness ==
    /\ ops = <<"applyBasePath">>
    /\ basePath = Docs
    /\ path = DotImage
    /\ route = DotImage

\* C6: for a path that starts with "/", applyBasePath gives what joinPath
\* gives; with the base "/" or "" a path with a single leading slash comes
\* back unchanged.
ApplyBasePathJoinsAbsolute ==
    lastOp = "applyBasePath" /\ ~ NoLeadingSlash(arg) =>
        /\ route = joinPath(basePath, arg)
        /\ JoinedWithOneSlash(basePath, arg, route)
        /\ (basePath \in {Root, Empty} /\ NoLeadingSlash(Tail(arg)) => route = arg)

ApplyBasePathJoinsAbsoluteWitness ==
    /\ ops = <<"applyBasePath">>
    /\ basePath = Docs
    /\ path = FooBar
    /\ route = DocsFooBar

\* C7: for the bases "", "/", "/docs" and "/docs/" and every path, applying
\* the base path, removing it and applying it again gives what applying it
\* once gave.
ApplyRemoveApplyIdempotent ==
    /\ ops = <<"applyBasePath", "removeBasePath", "applyBasePath">>
    /\ basePath \in {Empty, Root, Docs, DocsSlash}
    => results[3] = results[1]

ApplyRemoveApplyIdempotentWitness ==
    /\ ops = <<"applyBasePath", "removeBasePath", "applyBasePath">>
    /\ basePath = DocsSlash
    /\ path = FooBar
    /\ results = <<DocsFooBar, FooBar, DocsFooBar>>

\* ------------------------------------------------------------------------
\* removeBasePath
\* ------------------------------------------------------------------------

\* The base is a prefix of the route, character by character.
IsPrefixOf(b, r) == Len(b) <= Len(r) /\ \A i \in 1..Len(b) : r[i] = b[i]

RemoveBasePathKeepsOtherRoutes ==
    lastOp = "removeBasePath" /\ ~ IsPrefixOf(basePath, arg) => route = arg

RemoveBasePathKeepsOtherRoutesWitness ==
    /\ ops = <<"removeBasePath">>
    /\ basePath = Docs
    /\ path = OtherFoo
    /\ route = OtherFoo

\* C10: with the base "/" and with the base "", removeBasePath returns
\* every route unchanged.
RemoveBasePathRootIsNoOp ==
    lastOp = "removeBasePath" /\ basePath \in {Root, Empty} => route = arg

RemoveBasePathRootIsNoOpWitness ==
    /\ ops = <<"removeBasePath">>
    /\ basePath = Root
    /\ path = FooBar
    /\ route = FooBar

\* ------------------------------------------------------------------------
\* Sequencer
\* ------------------------------------------------------------------------

\* The position of page p in the page sequence (0: not in it).
PositionOf(p) == pageIndex(flattenedPages, p)

RECURSIVE SubtreeSize(_, _)
RECURSIVE SubtreesSize(_, _)
\* The number of pages of the subtree of p.
SubtreeSize(d, p) == 1 + SubtreesSize(d, d[p])
SubtreesSize(d, children) ==
    IF children = << >> THEN 0
    ELSE SubtreeSize(d, Head(children)) + SubtreesSize(d, Tail(children))

\* C11: the page sequence holds every page of the tree exactly once; the
\* first page of the sequence has no previous page and the last no next.
SequencerIsPermutation ==
    flattenedPages # << >> =>
        /\ Len(flattenedPages) = Cardinality(PagesOf(docs))
        /\ {flattenedPages[i] : i \in 1..Len(flattenedPages)} = PagesOf(docs)
        /\ (sequenced /\ target = flattenedPages[1] => previousPage = Absent)
        /\ (sequenced /\ target = flattenedPages[Len(flattenedPages)]
               => nextPage = Absent)

SequencerIsPermutationWitness ==
    /\ docs = ScenarioTree
    /\ Len(flattenedPages) = 5
    /\ sequenced
    /\ target = flattenedPages[5]
    /\ previousPage # Absent
    /\ nextPage = Absent

\* C12: the page sequence is the pre-order traversal: the root first, the
\* first child of a page right after the page, every further child right
\* after the subtree of the child listed before it; previous and next are
\* the neighbours in that order. For root -> [A, B -> [B1, B2]] the order
\* is root, A, B, B1, B2 and B1 lies between B and B2.
SequencerIsPreOrder ==
    flattenedPages # << >> =>
        /\ flattenedPages[1] = RootPage
        /\ \A p \in PagesOf(docs) : \A k \in 1..Len(docs[p]) :
              PositionOf(docs[p][k]) =
                  IF k = 1 THEN PositionOf(p) + 1
                  ELSE PositionOf(docs[p][k - 1]) + SubtreeSize(docs, docs[p][k - 1])
        /\ (sequenced /\ PositionOf(target) > 1
               => previousPage = flattenedPages[PositionOf(target) - 1])
        /\ (sequenced /\ PositionOf(target) \in 1..(Len(flattenedPages) - 1)
               => nextPage = flattenedPages[PositionOf(target) + 1])
        /\ (docs = ScenarioTree => flattenedPages = <<1, 2, 3, 4, 5>>)
        /\ (docs = ScenarioTree /\ sequenced /\ target = 4
               => previousPage = 3 /\ nextPage = 5)

SequencerIsPreOrderWitness ==
    /\ docs = ScenarioTree
    /\ flattenedPages = <<1, 2, 3, 4, 5>>
    /\ sequenced
    /\ target = 4
    /\ previousPage = 3
    /\ nextPage = 5

IsChildOf(c, p) == \E k \in 1..Len(docs[p]) : docs[p][k] = c

\* C13: for a page of the tree the resolver returns a chain that starts at
\* the root, ends at the page asked for and in which every element is the
\* parent of the element after it.
BreadcrumbChainIsAncestorPath ==
    resolved.status # "none" /\ target \in PagesOf(docs) =>
        /\ resolved.status = "ok"
        /\ Len(resolved.chain) >= 1
        /\ resolved.chain[1] = RootPage
        /\ resolved.chain[Len(resolved.chain)] = target
        /\ \A k \in 1..(Len(resolved.chain) - 1) :
              IsChildOf(resolved.chain[k + 1], resolved.chain[k])

BreadcrumbChainIsAncestorPathWitness ==
    /\ docs = ScenarioTree
    /\ target = 5
    /\ resolved.status = "ok"
    /\ resolved.chain = <<1, 3, 5>>

\* C14: for a route that the tree does not have the resolution fails with
\* PageNotFound and returns no chain, and nothing is rendered for it: every
\* rendered page has the breadcrumb of a successful resolution, which is
\* not empty.
BreadcrumbAbsentPageFails ==
    /\ resolved.status # "none" /\ target \notin PagesOf(docs) =>
          /\ resolved.status = "PageNotFound"
          /\ "chain" \notin DOMAIN resolved
          /\ rendered.state # "rendered"
    /\ rendered.state = "rendered" =>
          /\ target \in PagesOf(docs)
          /\ resolved.status = "ok"
          /\ Len(rendered.breadcrumbs) >= 2

BreadcrumbAbsentPageFailsWitness ==
    /\ docs = ScenarioTree
    /\ target = 6
    /\ resolved.status = "PageNotFound"
    /\ rendered.state = "aborted"

\* C16: for a chain of n >= 1 elements the breadcrumb list shows, after the
\* home link, the n elements in the order of the chain, each of the first
\* n - 1 as a link to the route of its element and the last without href.
BreadcrumbsRenderContract ==
    rendered.state = "rendered" =>
        LET chain == resolved.chain
            n == Len(chain)
            items == Tail(rendered.breadcrumbs)
        IN  /\ Len(items) = n
            /\ \A i \in 1..n :
                  /\ items[i].title = titleOf(chain[i])
                  /\ (i < n => items[i].link /\ items[i].href = routeOf(chain[i]))
                  /\ (i = n => ~ items[i].link)

BreadcrumbsRenderContractWitness ==
    /\ docs = ScenarioTree
    /\ target = 4
    /\ rendered.state = "rendered"
    /\ Len(rendered.breadcrumbs) = 4
    /\ rendered.breadcrumbs[3].link
    /\ rendered.breadcrumbs[3].href = routeOf(3)
    /\ ~ rendered.breadcrumbs[4].link

\* ------------------------------------------------------------------------
\* Emitted URLs
\* ------------------------------------------------------------------------

\* Every href of the rendered page that starts with "/".
EmittedAbsoluteHrefs ==
    LET all == rendered.assets
                 \o [i \in 1..Len(rendered.breadcrumbs) |-> rendered.breadcrumbs[i].href]
                 \o rendered.categories
                 \o rendered.previousNext
    IN  {all[i] : i \in {j \in 1..Len(all) : ~ NoLeadingSlash(all[j])}}

\* The href lies under the base path: it is joinPath(basePath, t) for some t.
UnderBasePath(href) ==
    LET prefix == stripTrailingSlashes(basePath) \o <<"/">>
    IN  IsPrefixOf(prefix, href)

\* C17: with a base path other than "/" every absolute URL of the rendered
\* page (home link, ancestor links, category cards, previous/next links,
\* asset links) has the base path applied.
EmittedUrlsHaveBasePath ==
    rendered.state = "rendered" /\ basePath \notin {Root, Empty} =>
        \A href \in EmittedAbsoluteHrefs : UnderBasePath(href)

\* ------------------------------------------------------------------------
\* Translation status
\* ------------------------------------------------------------------------
ConfigFields == {"bgColor", "borderColor", "textColor", "iconColor", "label", "message"}

\* The colours of a configuration.
ColoursOf(config) ==
    <<config.bgColor, config.borderColor, config.textColor, config.iconColor>>

\* C18: each of the four statuses translated, partially_translated,
\* untranslated and community yields exactly one display configuration, with
\* label, message and colours, and the banner shows it; none of the four
\* yields no configuration.
StatusClassificationTotal ==
    alert.outcome # "none" /\ status \in KnownStatuses =>
        /\ alert.config # Undefined
        /\ DOMAIN alert.config = ConfigFields
        /\ alert.config.label # "" /\ alert.config.message # ""
        /\ alert.outcome = "rendered"
        /\ alert.label = alert.config.label
        /\ alert.message = alert.config.message
        /\ alert.class = <<"border", "rounded-md", "p-4", alert.config.bgColor,
                           alert.config.borderColor, alert.config.textColor>>
        /\ alert.iconClass = alert.config.iconColor

StatusClassificationTotalWitness ==
    /\ status = "community"
    /\ alert.outcome = "rendered"
    /\ alert.label = menuTranslations.originalVersion

\* C19: the configurations of the four statuses differ from one another;
\* the community banner has the label originalVersion, the message
\* contentAddedByCommunity and cyan colours, none of which the untranslated
\* banner has.
StatusConfigsDistinct ==
    alert.outcome # "none" /\ status \in KnownStatuses =>
        /\ \A other \in KnownStatuses \ {status} :
              /\ getStatusConfig(other) # alert.config
              /\ getStatusConfig(other).label # alert.config.label
              /\ getStatusConfig(other).message # alert.config.message
              /\ \A i \in 1..4 :
                    ColoursOf(getStatusConfig(other))[i] # ColoursOf(alert.config)[i]
        /\ (status = "community" =>
              /\ alert.config.label = menuTranslations.originalVersion
              /\ alert.config.message = menuTranslations.contentAddedByCommunity
              /\ ColoursOf(alert.config) =
                    << <<"bg", "cyan", "50">>, <<"border", "cyan", "200">>,
                       <<"text", "cyan", "800">>, <<"text", "cyan", "600">> >>)
        /\ (status = "untranslated" =>
              /\ alert.config.label = menuTranslations.untranslated
              /\ alert.config.label # menuTranslations.originalVersion
              /\ alert.config.message # menuTranslations.contentAddedByCommunity)

StatusConfigsDistinctWitness ==
    /\ status = "community"
    /\ alert.outcome = "rendered"
    /\ alert.config.bgColor = <<"bg", "cyan", "50">>
    /\ alert.config.message = menuTranslations.contentAddedByCommunity

\* C20: a status outside the four known values gets no configuration and no
\* banner: building the banner ends with an error.
UnknownStatusFailsLoudly ==
    alert.outcome # "none" /\ status \notin KnownStatuses =>
        /\ alert.config = Undefined
        /\ alert.outcome = "TypeError"
        /\ "label" \notin DOMAIN alert

UnknownStatusFailsLoudlyWitness ==
    /\ status = "outdated"
    /\ alert.outcome = "TypeError"

\* ------------------------------------------------------------------------
\* Page templates
\* ------------------------------------------------------------------------

\* C21: the category cards are shown, and no previous/next links, exactly
\* when the route of the page is "/docs/", whatever the kind of its body and
\* whether or not previous and next pages are supplied.
CategoryCardsIffRoot ==
    document.state = "rendered" =>
        /\ (document.layout.categories = <<TutorialHref, ReferenceHref>>)
              <=> (routeOf(target) = DocsSlash)
        /\ (document.layout.categories = << >>) <=> (routeOf(target) # DocsSlash)
        /\ (routeOf(target) = DocsSlash => document.layout.previousNext = << >>)
        /\ \A kind \in BodyKinds : \A pr, nx \in PagesOf(docs) \cup {Absent} :
              BaseTemplate(pageWithBody(target, kind), docs, pathProp, pr, nx).categories
                 = document.layout.categories

CategoryCardsIffRootWitness ==
    /\ document.state = "rendered"
    /\ target = RootPage
    /\ body.kind = "type"
    /\ previousPage # Absent /\ nextPage # Absent
    /\ document.layout.categories = <<TutorialHref, ReferenceHref>>
    /\ document.layout.previousNext = << >>

\* C22: HtmlTemplate and TypeTemplate hand page, docs, path, previousPage and
\* nextPage to BaseTemplate as they got them, so the layout of a page is the
\* same for either kind of body.
TemplatesForwardNavigation ==
    document.state = "rendered" =>
        /\ document.layout = BaseTemplate(pageWithBody(target, body.kind), docs,
                                          pathProp, previousPage, nextPage)
        /\ document.layout.sidebar = SideNavigation(docs, routeOf(target), pathProp)
        /\ document.layout = HtmlTemplate(pageWithBody(target, "html"), docs,
                                          pathProp, previousPage, nextPage).layout
        /\ document.layout = TypeTemplate(pageWithBody(target, "type"), docs,
                                          pathProp, previousPage, nextPage).layout

TemplatesForwardNavigationWitness ==
    /\ document.state = "rendered"
    /\ body.kind = "type"
    /\ target # RootPage
    /\ previousPage # Absent /\ nextPage # Absent
    /\ document.layout.previousNext = <<routeOf(previousPage), routeOf(nextPage)>>
    /\ Len(document.children) = 2

\* C25: on a page whose route is not "/docs/" the previous link and the next
\* link are rendered both or not at all: both iff previousPage and nextPage
\* are both supplied.
PreviousNextBothOrNone ==
    document.state = "rendered" /\ routeOf(target) # DocsSlash =>
        /\ Len(document.layout.previousNext) \in {0, 2}
        /\ (document.layout.previousNext # << >>)
              <=> (previousPage # Absent /\ nextPage # Absent)
        /\ (previousPage # Absent /\ nextPage # Absent =>
              document.layout.previousNext = <<routeOf(previousPage), routeOf(nextPage)>>)

PreviousNextBothOrNoneWitness ==
    /\ document.state = "rendered"
    /\ target # RootPage
    /\ previousPage # Absent
    /\ nextPage = Absent
    /\ document.layout.previousNext = << >>

\* ------------------------------------------------------------------------
\* Builds
\* ------------------------------------------------------------------------

\* The document that rendering the route alone gives for the tree.
RenderAlone(d, r) ==
    LET n == neighbours(flattenDocs(d), r)
        found == resolveBreadcrumbs(d, r)
    IN  documentOf(d, [route |-> r, previousPage |-> n.previousPage,
                       nextPage |-> n.nextPage, resolved |-> found])

\* What holds of every written document and every report.
FailuresStayLocal ==
    /\ \A r \in Routes :
          outputs[r].state = "aborted" =>
             /\ r \notin PagesOf(docs)
             /\ outputs[r].route = r
             /\ [error |-> "PageNotFound", route |-> r] \in reports
    /\ \A rep \in reports :
          /\ rep.route \notin PagesOf(docs)
          /\ outputs[rep.route].state = "aborted"

AllPagesRendered == \A p \in PagesOf(docs) : outputs[p].state = "rendered"

DismissalIsPersistent ==
    /\ [](\A p \in Tabs :
            /\ tabs[p].dismissed => ~ tabs[p].bannerVisible /\ localStorage = "true"
            /\ tabs[p].loaded /\ tabs[p].isBannerHidden =>
                  ~ tabs[p].bannerVisible /\ tabs[p].shown = 0 /\ tabs[p].timer = "none")
    /\ [][localStorage = "true" => localStorage' = "true"]_vars
    /\ [][localStorage' # localStorage => localStorage' = "true"]_vars

DismissalIsPersistentWitness ==
    /\ tabs[1].dismissed
    /\ tabs[2].loaded /\ tabs[2].isBannerHidden
    /\ tabs[2].loads = 2
    /\ ~ tabs[2].bannerVisible

\* C27: the banner of a page becomes visible only in a state in which the
\* stored item is not 'true', also when another page stored it after this
\* page's check.
BannerAppearsOnlyWhileNotHidden ==
    [][\A p \in Tabs :
          ~ tabs[p].bannerVisible /\ tabs'[p].bannerVisible => localStorage # "true"]_vars

\* C28: bannerVisible is false when the page is loaded; a page whose check
\* did not read 'true' shows the banner in the end, unless the page is left
\* before; the banner is shown at most once per page load and stays hidden
\* after hideBanner.
BannerShownOnce ==
    /\ [](\A p \in Tabs :
            /\ tabs[p].shown <= 1
            /\ tabs[p].dismissed => ~ tabs[p].bannerVisible /\ tabs[p].timer = "fired"
            /\ tabs[p].bannerVisible => tabs[p].shown = 1)
    /\ [][\A p \in Tabs :
            tabs'[p].loads # tabs[p].loads => ~ tabs'[p].bannerVisible]_vars
    /\ \A p \in Tabs : \A n \in 1..MaxLoads :
          (tabs[p].loads = n /\ ~ tabs[p].isBannerHidden)
             ~> (tabs[p].shown = 1 \/ tabs[p].loads # n)

BannerShownOnceWitness ==
    /\ tabs[1].loaded
    /\ ~ tabs[1].isBannerHidden
    /\ tabs[1].shown = 1
    /\ tabs[1].dismissed
    /\ ~ tabs[1].bannerVisible
    /\ tabs[2].bannerVisible

\* ------------------------------------------------------------------------
\* Tooltip
\* ------------------------------------------------------------------------

\* The event dispatched by the step is of the given type at the given part
\* of Tooltip i.
EventAt(i, type, part) ==
    /\ event' # event \/ helpOpen' # helpOpen \/ focus' # focus
    /\ event'.type = type
    /\ event'.target = [tooltip |-> i, part |-> part]

\* The Escape key is pressed while the dialog of Tooltip i is shown.
EscapeWhileOpen(i) ==
    /\ helpOpen[i]
    /\ event'.type = "keydown" /\ event'.key = "Escape"
    /\ focus' # focus \/ event' # event \/ helpOpen' # helpOpen

\* C29: helpOpen starts false; only a click, Enter or Space on the help
\* button sets it to true; a click on the backdrop, the Escape key and the
\* close button set it to false; a click inside the panel leaves it as it
\* is; an event at one Tooltip leaves helpOpen of the others as it is.
TooltipDialogState ==
    [][\A i \in Tooltips :
          /\ (~ helpOpen[i] /\ helpOpen'[i] =>
                 /\ event'.target = [tooltip |-> i, part |-> "helpButton"]
                 /\ event'.type = "click"
                       \/ (event'.type = "keydown" /\ event'.key \in ButtonKeys))
          /\ (EventAt(i, "click", "backdrop") \/ EventAt(i, "click", "closeButton")
                 => ~ helpOpen'[i])
          /\ (EscapeWhileOpen(i) => ~ helpOpen'[i])
          /\ (EventAt(i, "click", "panel") => helpOpen'[i] = helpOpen[i])
          /\ (event'.target.tooltip # i => helpOpen'[i] = helpOpen[i])]_vars

\* ------------------------------------------------------------------------
\* Translation lookup
\* ------------------------------------------------------------------------

\* C30: t never returns undefined: for a key that is an own entry of
\* menuTranslations it returns the string of the entry, or what the entry
\* returns when it is a function; for every other key, the names inherited
\* from Object.prototype among them, it throws an error that names the key.
TranslationLookupTotal ==
    \A i \in 1..Len(asked) :
        LET key == asked[i]
            entries == entriesOf(translations)
        IN  /\ answers[i] # Returned(Undefined)
            /\ (key \in DOMAIN entries /\ entries[key].type = "string" =>
                   answers[i] = Returned(entries[key]))
            /\ (key \in DOMAIN entries /\ entries[key].type = "function" =>
                   answers[i] = Returned(entries[key].result))
            /\ (key \notin DOMAIN entries =>
                   /\ answers[i].outcome = "thrown"
                   /\ answers[i].error = <<"Not translation found for ", key>>)

TranslationLookupTotalWitness ==
    /\ translations = "translations.tsx"
    /\ Len(asked) = 2
    /\ asked[1] = "toString" /\ answers[1].outcome = "thrown"
    /\ asked[2] = "banner" /\ answers[2].outcome = "returned"
    /\ answers[2].value.type = "object"

====
